---------------------------- MODULE Spec2Model ----------------------------
(***************************************************************************)
(* Model of the Iran sanctions crypto monitor:                             *)
(*   - the multi-chain monitor (src/src/monitors/blockchain.py) with its   *)
(*     callers, the API routes (src/src/api.py) and the CLI (src/main.py); *)
(*   - the OFAC ingestion (src/src/sanctions/ofac.py).                     *)
(* The asyncio event loop is single-threaded: a handler runs until it      *)
(* awaits a network request.  A request is two steps, the send and the     *)
(* arrival of the answer; the upstream's answer is a nondeterministic      *)
(* choice among the answers an explorer can give.                          *)
(***************************************************************************)
EXTENDS Integers, Sequences, FiniteSets, TLC

\* ------------------------------------------------------------------ bounds
\* Longest batch given to monitor_all.
MaxBatch == 2

\* ------------------------------------------------------------- data model
\* models.py BlockchainType: the closed set of tags.
BlockchainType == {"bitcoin", "ethereum", "tron", "usdt_erc20", "usdt_trc20"}

\* Tag strings a caller may pass: the five tags and one string outside them.
TagInputs == BlockchainType \cup {"dogecoin"}

\* Addresses a caller may pass.
Addresses == {"0xA1", "TB2"}

\* The three adapters IranMonitor.__init__ creates.
Adapters == {"etherscan", "trongrid", "blockchair"}

\* dict.get(key, default)
Get(d, k, default) == IF k \in DOMAIN d THEN d[k] ELSE default

\* What a coroutine ends with: a returned list of transactions or a raised
\* exception, named by its Python class.
Return(v) == [kind |-> "return", error |-> "", value |-> v]
Raise(e) == [kind |-> "raise", error |-> e, value |-> <<>>]
NoOutcome == [kind |-> "none", error |-> "", value |-> <<>>]

\* BlockchainType(value): the Enum constructor accepts exactly the members'
\* values and raises ValueError for any other string.
IsValidTagLax(t) == TRUE
IsValidTag(t) == t \in BlockchainType

\* ------------------------------------------------------------------- text
\* The letters str.upper() and str.lower() map to each other.
LowerLetters == <<"a", "b", "c", "d", "e", "f", "g", "h", "i", "j", "k", "l", "m", "n", "o", "p", "q", "r", "s", "t", "u", "v", "w", "x", "y", "z">>
UpperLetters == <<"A", "B", "C", "D", "E", "F", "G", "H", "I", "J", "K", "L", "M", "N", "O", "P", "Q", "R", "S", "T", "U", "V", "W", "X", "Y", "Z">>

\* str.upper() and str.lower(), character by character
UpperChar(c) ==
    IF \E i \in 1..Len(LowerLetters) : LowerLetters[i] = c
    THEN UpperLetters[CHOOSE i \in 1..Len(LowerLetters) : LowerLetters[i] = c] ELSE c
LowerChar(c) ==
    IF \E i \in 1..Len(LowerLetters) : UpperLetters[i] = c
    THEN LowerLetters[CHOOSE i \in 1..Len(LowerLetters) : UpperLetters[i] = c] ELSE c
UpperSame(s) == s
Upper(s) == [i \in 1..Len(s) |-> UpperChar(s[i])]
LowerSame(s) == s
Lower(s) == [i \in 1..Len(s) |-> LowerChar(s[i])]

\* The characters of the address strings of the model.
AddressChars ==
    [s \in {"0xA1", "0xa1", "0xb2", "0xc3", "TB2", "TC3", ""} |->
        CASE s = "0xA1" -> <<"0", "x", "A", "1">>
          [] s = "0xa1" -> <<"0", "x", "a", "1">>
          [] s = "0xb2" -> <<"0", "x", "b", "2">>
          [] s = "0xc3" -> <<"0", "x", "c", "3">>
          [] s = "TB2" -> <<"T", "B", "2">>
          [] s = "TC3" -> <<"T", "C", "3">>
          [] s = "" -> <<>>]

\* ------------------------------------------------------- upstream answers
\* An answer to client.get: the request failed (httpx raises a
\* RequestError), or an HTTP response arrived with a status and a body that
\* is JSON or not.  No adapter looks at the HTTP status.
NetErr == [kind |-> "neterr", status |-> 0, isjson |-> FALSE, data |-> [text |-> ""]]
BadGateway == [kind |-> "http", status |-> 502, isjson |-> FALSE,
               data |-> [text |-> "<html>Bad Gateway</html>"]]
Json(st, d) == [kind |-> "http", status |-> st, isjson |-> TRUE, data |-> d]

\* A non-success answer in the sense of the HTTP status (4xx, 5xx).
NonSuccess(resp) == resp.kind = "http" /\ resp.status >= 400

\* Etherscan txlist elements.  An amount is held as its decimal digits, most
\* significant first, as Decimal() reads them from the string or the number;
\* block numbers and timestamps as the numbers int() reads.
EthTx1 == [hash |-> "0xh1", from |-> "0xA1", to |-> "0xb2", value |-> <<5>>,
           blockNumber |-> 7, timeStamp |-> 17]
EthTx2 == [hash |-> "0xh2", from |-> "0xc3", to |-> "0xa1", value |-> <<9>>,
           blockNumber |-> 8, timeStamp |-> 18]
EthTxNoHash == [from |-> "0xA1", to |-> "0xb2", value |-> <<5>>,
                blockNumber |-> 7, timeStamp |-> 17]
EthTxNoValue == [hash |-> "0xh3", from |-> "0xA1", to |-> "0xb2",
                 blockNumber |-> 7, timeStamp |-> 17]

EthTxWei == [hash |-> "0xh4", from |-> "0xA1", to |-> "0xb2",
             value |-> <<1, 2, 3, 4, 5, 6, 7, 8, 9, 0, 1, 2, 3, 4, 5, 6, 7, 8>>,
             blockNumber |-> 9, timeStamp |-> 19]

EthTxSelf == [hash |-> "0xh5", from |-> "0xa1", to |-> "0xA1", value |-> <<5>>,
              blockNumber |-> 9, timeStamp |-> 19]

\* Etherscan tokentx elements.
TokTxUsdt == [hash |-> "0xt1", from |-> "0xA1", to |-> "0xb2", value |-> <<5>>,
              blockNumber |-> 7, timeStamp |-> 17, tokenSymbol |-> "USDT",
              tokenDecimal |-> 6]
TokTxDai == [hash |-> "0xt2", from |-> "0xc3", to |-> "0xA1", value |-> <<9>>,
             blockNumber |-> 8, timeStamp |-> 18, tokenSymbol |-> "DAI"]
TokTxNoTime == [hash |-> "0xt3", from |-> "0xA1", to |-> "0xb2", value |-> <<5>>,
                blockNumber |-> 7, tokenSymbol |-> "USDT", tokenDecimal |-> 6]

TokTxLarge == [hash |-> "0xt4", from |-> "0xA1", to |-> "0xb2",
               value |-> <<1, 2, 3, 4, 5, 6, 7, 8, 9, 0, 1, 2, 3, 4, 5, 6, 7, 8, 9, 0,
                           1, 2, 3, 4, 5, 6, 7, 8, 9>>,
               blockNumber |-> 9, timeStamp |-> 19, tokenSymbol |-> "SHIB",
               tokenDecimal |-> 18]

\* TronGrid /transactions elements.
TrxContract(type) == [type |-> type,
    parameter |-> [value |-> [owner_address |-> "TB2", to_address |-> "TC3",
                              amount |-> <<4>>]]]
TrxTx1 == [txID |-> "t1", raw_data |-> [contract |-> <<TrxContract("TransferContract")>>],
           block_timestamp |-> 17000]
TrxTxNoStamp == [txID |-> "t2", raw_data |-> [contract |-> <<TrxContract("TransferContract")>>]]
TrxTxNoId == [raw_data |-> [contract |-> <<TrxContract("TransferContract")>>],
              block_timestamp |-> 17000]
TrxTriggerNoId == [raw_data |-> [contract |-> <<TrxContract("TriggerSmartContract")>>],
                   block_timestamp |-> 17000]

\* TronGrid /transactions/trc20 elements.
Trc1 == [transaction_id |-> "r1", token_info |-> [symbol |-> "USDT", decimals |-> 6],
         from |-> "TB2", to |-> "TC3", value |-> <<4>>, block_timestamp |-> 17000]
TrcBare == [transaction_id |-> "r2"]
TrcNoId == [token_info |-> [symbol |-> "USDT", decimals |-> 6],
            from |-> "TB2", to |-> "TC3", value |-> <<4>>, block_timestamp |-> 17000]

\* Blockchair dashboard for one address.
BtcDash(address) == [data |-> [a \in {address} |->
    [address |-> [balance |-> <<3>>, transaction_count |-> 2, received |-> <<8>>, spent |-> <<5>>]]]]

\* The answers each operation's request can get.
EtherscanTxlistAnswers == <<
    NetErr, BadGateway,
    Json(200, [status |-> "0", message |-> "NOTOK", result |-> <<>>]),
    Json(200, [status |-> "1", message |-> "OK", result |-> <<EthTx1, EthTx2>>]),
    Json(200, [status |-> "1", message |-> "OK", result |-> <<EthTx1, EthTxNoHash>>]),
    Json(200, [status |-> "1", message |-> "OK", result |-> <<EthTxNoValue>>]),
    Json(200, [status |-> "1", message |-> "OK", result |-> <<EthTxWei, EthTxSelf>>]) >>
EtherscanTokentxAnswers == <<
    NetErr, BadGateway,
    Json(200, [status |-> "0", message |-> "No transactions found", result |-> <<>>]),
    Json(200, [status |-> "1", message |-> "OK", result |-> <<TokTxUsdt, TokTxDai>>]),
    Json(200, [status |-> "1", message |-> "OK", result |-> <<TokTxUsdt, TokTxNoTime>>]),
    Json(200, [status |-> "1", message |-> "OK", result |-> <<TokTxLarge>>]) >>
TrongridTxAnswers == <<
    NetErr, BadGateway,
    Json(503, [success |-> FALSE, error |-> "unavailable"]),
    Json(200, [success |-> TRUE, data |-> <<TrxTx1, TrxTriggerNoId, TrxTxNoStamp>>]),
    Json(200, [success |-> TRUE, data |-> <<TrxTx1, TrxTxNoId>>]) >>
TrongridTrc20Answers == <<
    NetErr, BadGateway,
    Json(503, [success |-> FALSE, error |-> "unavailable"]),
    Json(200, [success |-> TRUE, data |-> <<Trc1, TrcBare>>]),
    Json(200, [success |-> TRUE, data |-> <<Trc1, TrcNoId>>]) >>
BlockchairAnswers(address) == <<
    NetErr, BadGateway,
    Json(430, [context |-> [code |-> 430]]),
    Json(200, BtcDash(address)) >>


\* ------------------------------------------------------------ transactions
\* datetime values, held as milliseconds since the epoch; None is NoTime.
NoTime == [none |-> TRUE, ms |-> 0]
Time(ms) == [none |-> FALSE, ms |-> ms]

\* datetime.fromtimestamp(num / den): the point in time num / den seconds
\* after the epoch, at the millisecond resolution of the sources.
FromTimestamp(num, den) == Time((num * 1000) \div den)

\* The precision of the decimal module's default context: an arithmetic
\* result is rounded to this many significant digits.
DecimalPrec == 28

\* A Decimal value coeff * 10^exp in its canonical form: no trailing zero
\* in the coefficient, and zero as 0 * 10^0.
RECURSIVE Normalise(_, _)
Normalise(coeff, exp) ==
    IF \A i \in 1..Len(coeff) : coeff[i] = 0 THEN [coeff |-> <<0>>, exp |-> 0]
    ELSE IF coeff[1] = 0 THEN Normalise(Tail(coeff), exp)
    ELSE IF coeff[Len(coeff)] = 0 THEN Normalise(SubSeq(coeff, 1, Len(coeff) - 1), exp + 1)
    ELSE [coeff |-> coeff, exp |-> exp]

\* The coefficient plus one.
RECURSIVE Increment(_)
Increment(coeff) ==
    IF coeff = <<>> THEN <<1>>
    ELSE IF coeff[Len(coeff)] < 9
         THEN [coeff EXCEPT ![Len(coeff)] = coeff[Len(coeff)] + 1]
    ELSE Append(Increment(SubSeq(coeff, 1, Len(coeff) - 1)), 0)

\* ROUND_HALF_EVEN of a coefficient longer than prec digits, with no
\* trailing zero, to its first prec digits.
RoundHalfEven(coeff, prec) ==
    LET head == SubSeq(coeff, 1, prec)
        next == coeff[prec + 1]
        up == \/ next > 5
              \/ next = 5 /\ Len(coeff) > prec + 1
              \/ next = 5 /\ head[prec] % 2 = 1
    IN  IF up THEN Increment(head) ELSE head

\* Decimal(amount) / Decimal(10**exp): the quotient, exact when it has at
\* most DecimalPrec significant digits and rounded to that many otherwise.
Scaled(amount, exp) ==
    LET q == Normalise(amount, 0 - exp)
    IN  IF Len(q.coeff) <= DecimalPrec THEN q
        ELSE Normalise(RoundHalfEven(q.coeff, DecimalPrec),
                       q.exp + Len(q.coeff) - DecimalPrec)

\* The Transaction dataclass (value_usd is never set by an adapter).
Transaction(h, bc, from, to, value, number, stamp, raw) ==
    [tx_hash |-> h, blockchain |-> bc, from_address |-> from, to_address |-> to,
     value |-> value, block_number |-> number, block_timestamp |-> stamp,
     raw_data |-> raw]

\* client.get followed by response.json(): the request error and the JSON
\* decoding error are caught by no adapter and end the operation.
RequestFailure(resp) ==
    IF resp.kind = "neterr" THEN Raise("ConnectError")
    ELSE IF ~resp.isjson THEN Raise("JSONDecodeError")
    ELSE NoOutcome

\* Some element lacks a field the loop subscripts (tx["hash"]): KeyError.
AnyLacks(items, required) == \E i \in 1..Len(items) : ~(required \subseteq DOMAIN items[i])

\* EtherscanMonitor.get_transactions
EthRequired == {"hash", "from", "to", "value", "blockNumber", "timeStamp"}
EthBuild(tx) ==
    Transaction(tx.hash, "ethereum", tx.from, tx.to, Scaled(tx.value, 18),
                tx.blockNumber, FromTimestamp(tx.timeStamp, 1), tx)
EtherscanGetTransactionsSkipping(address, resp) ==
    LET result == Get(resp.data, "result", <<>>)
        whole(tx) == EthRequired \subseteq DOMAIN tx
        kept == SelectSeq(result, whole)
    IN  IF RequestFailure(resp).kind = "raise" THEN RequestFailure(resp)
        ELSE IF Get(resp.data, "status", "") # "1" THEN Return(<<>>)
        ELSE Return([i \in 1..Len(kept) |-> EthBuild(kept[i])])
EtherscanGetTransactions(address, resp) ==
    LET result == Get(resp.data, "result", <<>>)
    IN  IF RequestFailure(resp).kind = "raise" THEN RequestFailure(resp)
        ELSE IF Get(resp.data, "status", "") # "1" THEN Return(<<>>)
        ELSE IF AnyLacks(result, EthRequired) THEN Raise("KeyError")
        ELSE Return([i \in 1..Len(result) |-> EthBuild(result[i])])

\* "usdt" in tx.get("tokenSymbol", "").lower(), for the symbols upstream sends
IsUsdtSymbol(sym) == sym \in {"USDT", "usdt", "Usdt", "aUSDT"}

\* EtherscanMonitor.get_token_transfers
TokBuild(tx) ==
    Transaction(tx.hash,
                IF IsUsdtSymbol(Get(tx, "tokenSymbol", "")) THEN "usdt_erc20" ELSE "ethereum",
                tx.from, tx.to, Scaled(tx.value, Get(tx, "tokenDecimal", 18)),
                tx.blockNumber, FromTimestamp(tx.timeStamp, 1), tx)
EtherscanGetTokenTransfers(address, resp) ==
    LET result == Get(resp.data, "result", <<>>)
    IN  IF RequestFailure(resp).kind = "raise" THEN RequestFailure(resp)
        ELSE IF Get(resp.data, "status", "") # "1" THEN Return(<<>>)
        ELSE IF AnyLacks(result, EthRequired) THEN Raise("KeyError")
        ELSE Return([i \in 1..Len(result) |-> TokBuild(result[i])])

\* TrongridMonitor.get_transactions
TrxContractOf(tx) == Get(Get(tx, "raw_data", <<>>), "contract", << <<>> >>)[1]
TrxKeep(tx) == Get(TrxContractOf(tx), "type", "") = "TransferContract"
TrxBuildSeconds(tx) ==
    LET value_data == Get(Get(TrxContractOf(tx), "parameter", <<>>), "value", <<>>)
    IN  Transaction(tx.txID, "tron", Get(value_data, "owner_address", ""),
                    Get(value_data, "to_address", ""),
                    Scaled(Get(value_data, "amount", <<0>>), 6), 0,
                    FromTimestamp(Get(tx, "block_timestamp", 0), 1), tx)
TrxBuild(tx) ==
    LET value_data == Get(Get(TrxContractOf(tx), "parameter", <<>>), "value", <<>>)
    IN  Transaction(tx.txID, "tron", Get(value_data, "owner_address", ""),
                    Get(value_data, "to_address", ""),
                    Scaled(Get(value_data, "amount", <<0>>), 6), 0,
                    FromTimestamp(Get(tx, "block_timestamp", 0), 1000), tx)
TrongridGetTransactions(address, resp) ==
    LET kept == SelectSeq(Get(resp.data, "data", <<>>), TrxKeep)
    IN  IF RequestFailure(resp).kind = "raise" THEN RequestFailure(resp)
        ELSE IF AnyLacks(kept, {"txID"}) THEN Raise("KeyError")
        ELSE Return([i \in 1..Len(kept) |-> TrxBuild(kept[i])])

\* TrongridMonitor.get_trc20_transfers
Trc20Build(tx) ==
    Transaction(tx.transaction_id, "usdt_trc20", Get(tx, "from", ""), Get(tx, "to", ""),
                Scaled(Get(tx, "value", <<0>>), Get(Get(tx, "token_info", <<>>), "decimals", 6)),
                0, FromTimestamp(Get(tx, "block_timestamp", 0), 1000), tx)
TrongridGetTrc20Transfers(address, resp) ==
    LET data == Get(resp.data, "data", <<>>)
    IN  IF RequestFailure(resp).kind = "raise" THEN RequestFailure(resp)
        ELSE IF AnyLacks(data, {"transaction_id"}) THEN Raise("KeyError")
        ELSE Return([i \in 1..Len(data) |-> Trc20Build(data[i])])

\* BlockchairMonitor.get_address_info: the summary dict
BlockchairGetAddressInfo(address, resp) ==
    LET addr_data == Get(Get(Get(resp.data, "data", <<>>), address, <<>>), "address", <<>>)
    IN  IF RequestFailure(resp).kind = "raise" THEN RequestFailure(resp)
        ELSE Return([balance |-> Scaled(Get(addr_data, "balance", <<0>>), 8),
                     tx_count |-> Get(addr_data, "transaction_count", 0),
                     received |-> Scaled(Get(addr_data, "received", <<0>>), 8),
                     spent |-> Scaled(Get(addr_data, "spent", <<0>>), 8)])

\* -------------------------------------------------------- monitor_address
\* An adapter operation, or the fall-through of monitor_address (no operation).
Op(adapter, name) == [adapter |-> adapter, name |-> name]
NoOp == Op("none", "none")

\* IranMonitor.monitor_address: the if/elif chain over the tag.
DispatchSwapped(blockchain) ==
    IF blockchain = "ethereum" THEN Op("etherscan", "get_transactions")
    ELSE IF blockchain = "usdt_erc20" THEN Op("etherscan", "get_transactions")
    ELSE IF blockchain = "tron" THEN Op("trongrid", "get_trc20_transfers")
    ELSE IF blockchain = "usdt_trc20" THEN Op("trongrid", "get_trc20_transfers")
    ELSE IF blockchain = "bitcoin" THEN Op("blockchair", "get_address_info")
    ELSE NoOp
Dispatch(blockchain) ==
    IF blockchain = "ethereum" THEN Op("etherscan", "get_transactions")
    ELSE IF blockchain = "usdt_erc20" THEN Op("etherscan", "get_token_transfers")
    ELSE IF blockchain = "tron" THEN Op("trongrid", "get_transactions")
    ELSE IF blockchain = "usdt_trc20" THEN Op("trongrid", "get_trc20_transfers")
    ELSE IF blockchain = "bitcoin" THEN Op("blockchair", "get_address_info")
    ELSE NoOp

\* The answers the request of an operation can get.
Answers(op, address) ==
    IF op = Op("etherscan", "get_transactions") THEN EtherscanTxlistAnswers
    ELSE IF op = Op("etherscan", "get_token_transfers") THEN EtherscanTokentxAnswers
    ELSE IF op = Op("trongrid", "get_transactions") THEN TrongridTxAnswers
    ELSE IF op = Op("trongrid", "get_trc20_transfers") THEN TrongridTrc20Answers
    ELSE BlockchairAnswers(address)

\* What the adapter operation ends with, given the answer to its request.
AdapterResult(op, address, resp) ==
    IF op = Op("etherscan", "get_transactions") THEN EtherscanGetTransactions(address, resp)
    ELSE IF op = Op("etherscan", "get_token_transfers") THEN EtherscanGetTokenTransfers(address, resp)
    ELSE IF op = Op("trongrid", "get_transactions") THEN TrongridGetTransactions(address, resp)
    ELSE IF op = Op("trongrid", "get_trc20_transfers") THEN TrongridGetTrc20Transfers(address, resp)
    ELSE BlockchairGetAddressInfo(address, resp)

\* What monitor_address ends with once its operation has ended: the
\* operation's list or exception; for bitcoin the summary is logged and the
\* empty list returned.
MonitorAddressResult(op, adapterRet) ==
    IF adapterRet.kind = "raise" THEN adapterRet
    ELSE IF op.adapter = "blockchair" THEN Return(<<>>)
    ELSE adapterRet

\* ------------------------------------------------------------------ state
VARIABLES
    lifecycle,   \* "boot", "api" (after startup), "stopped" (after shutdown),
                 \* "cli" (cmd_monitor holds a monitor), "exited" (CLI ended)
    clients,     \* per adapter, its httpx.AsyncClient: "none", "open", "closed"
    fetcher,     \* the OFACIranFetcher's client: "none", "open", "closed"
    closeCount,  \* per adapter, how many times its close() has run
    entry,       \* the running entry point: "none", "api_address", "api_batch", "cli"
    input,       \* its argument: the sequence of {address, blockchain} specs
    pc,          \* its position: "idle", "send", "recv", "return", "finally", "done"
    idx,         \* monitor_all: the position of the second loop in tasks
    results,     \* monitor_all: the results dict, address -> list
    inflight,    \* requests sent and not yet answered
    sent,        \* requests sent since the entry point began
    hist,        \* the monitor_address calls completed since the entry point began
    outcome,     \* what the entry point ended with
    answer,      \* the answer fetch_sdn_xml's GET received
    parsed,      \* what parse_iran_designations ended with
    settings,    \* get_settings' lru_cache and the count of Settings() made
    settingsOf   \* per component, the Settings instance its constructor got

vars == <<lifecycle, clients, fetcher, closeCount, entry, input, pc, idx,
          results, inflight, sent, hist, outcome, answer, parsed, settings, settingsOf>>

\* The variables of the settings cache, which only constructors touch.
settingsVars == <<settings, settingsOf>>

\* The components whose constructor calls get_settings().
Components == {"fetcher", "etherscan", "trongrid", "blockchair", "monitor"}

\* IranMonitor.__init__ creates the three adapters, then calls
\* get_settings() itself; api.py startup creates the fetcher before it.
MonitorParts == <<"etherscan", "trongrid", "blockchair", "monitor">>
StartupParts == <<"fetcher">> \o MonitorParts

\* config.py get_settings under @lru_cache, on the cache state: a cached
\* instance is returned (cache), else Settings() makes a new one, which is
\* cached.  Instances are numbered in the order of their creation.
GetSettingsUncached(st) == [cache |-> st.created + 1, created |-> st.created + 1]
GetSettings(st) ==
    IF st.cache # 0 THEN st
    ELSE [cache |-> st.created + 1, created |-> st.created + 1]

\* The cache state after n calls of get_settings(); the n-th call returns
\* the instance then cached.
RECURSIVE AfterCalls(_, _)
AfterCalls(st, n) == IF n = 0 THEN st ELSE GetSettings(AfterCalls(st, n - 1))

\* self.settings = get_settings() in the constructors of parts, in order.
Constructed(st, holders, parts) ==
    [c \in Components |->
        IF \E k \in 1..Len(parts) : parts[k] = c
        THEN AfterCalls(st, CHOOSE k \in 1..Len(parts) : parts[k] = c).cache
        ELSE holders[c]]

\* The variables of the sanctions ingestion, which no monitor action touches.
ofacVars == <<answer, parsed>>

\* An {address, blockchain} dict.
AddrSpec(a, b) == [address |-> a, blockchain |-> b]

\* The specs batches are made of: every tag, one address under two tags, and
\* one string that is no tag.
SpecPool ==
    {AddrSpec("0xA1", "ethereum"), AddrSpec("0xA1", "usdt_erc20"),
     AddrSpec("TB2", "tron"), AddrSpec("TB2", "usdt_trc20"),
     AddrSpec("0xA1", "bitcoin"), AddrSpec("TB2", "dogecoin")}

Batches == UNION {[1..n -> SpecPool] : n \in 0..MaxBatch}

\* The empty dict.
EmptyDict == [a \in {} |-> <<>>]

\* d[k] = v
DictSet(d, k, v) == [a \in DOMAIN d \cup {k} |-> IF a = k THEN v ELSE d[a]]

\* The answer field of a call that sent no request.
NoAnswer == [kind |-> "none", status |-> 0, isjson |-> FALSE, data |-> [text |-> ""]]

Init ==
    /\ lifecycle = "boot"
    /\ clients = [a \in Adapters |-> "none"]
    /\ fetcher = "none"
    /\ closeCount = [a \in Adapters |-> 0]
    /\ entry = "none"
    /\ input = <<>>
    /\ pc = "idle"
    /\ idx = 0
    /\ results = EmptyDict
    /\ inflight = {}
    /\ sent = <<>>
    /\ hist = <<>>
    /\ outcome = NoOutcome
    /\ answer = NoAnswer
    /\ parsed = NoOutcome
    /\ settings = [cache |-> 0, created |-> 0]
    /\ settingsOf = [c \in Components |-> 0]

\* IranMonitor.__init__: each adapter creates its client.
NewMonitor == [a \in Adapters |-> "open"]

\* IranMonitor.close: the adapters whose close() it gathers.
CloseTargetsTwo == {"etherscan", "trongrid"}
CloseTargets == {"etherscan", "trongrid", "blockchair"}

\* IranMonitor.close on the clients, and on the count of close() calls.
CloseClients(cl) == [a \in Adapters |-> IF a \in CloseTargets THEN "closed" ELSE cl[a]]
CloseCounted(cnt) == [a \in Adapters |-> IF a \in CloseTargets THEN cnt[a] + 1 ELSE cnt[a]]

\* A request on the wire.
Request(i, op, address) == [i |-> i, op |-> op, address |-> address]

\* The spec the running monitor_address call works on.
Current == input[idx]

\* ---------------------------------------------------------------- actions
\* api.py startup: creates the fetcher and the monitor.
Startup ==
    /\ UNCHANGED ofacVars
    /\ settings' = AfterCalls(settings, Len(StartupParts))
    /\ settingsOf' = Constructed(settings, settingsOf, StartupParts)
    /\ lifecycle = "boot"
    /\ pc = "idle"
    /\ lifecycle' = "api"
    /\ fetcher' = "open"
    /\ clients' = NewMonitor
    /\ UNCHANGED <<closeCount, entry, input, pc, idx, results, inflight, sent, hist, outcome>>

\* api.py shutdown: closes the fetcher, then the monitor.
Shutdown ==
    /\ UNCHANGED ofacVars
    /\ UNCHANGED settingsVars
    /\ lifecycle = "api"
    /\ pc = "idle"
    /\ lifecycle' = "stopped"
    /\ fetcher' = "closed"
    /\ clients' = CloseClients(clients)
    /\ closeCount' = CloseCounted(closeCount)
    /\ UNCHANGED <<entry, input, pc, idx, results, inflight, sent, hist, outcome>>

\* api.py route monitor_address, up to its first await: the tag is checked
\* and a string that is no tag answered with HTTP 400.  The route function
\* stays callable after shutdown, when iran_monitor names the closed monitor.
ApiMonitorAddress(a, t) ==
    /\ UNCHANGED ofacVars
    /\ UNCHANGED settingsVars
    /\ lifecycle \in {"api", "stopped"}
    /\ pc = "idle"
    /\ entry' = "api_address"
    /\ input' = <<AddrSpec(a, t)>>
    /\ idx' = 1
    /\ IF IsValidTag(t)
       THEN pc' = "send" /\ outcome' = NoOutcome
       ELSE pc' = "done" /\ outcome' = Raise("HTTPException400")
    /\ UNCHANGED <<lifecycle, clients, fetcher, closeCount, results, inflight, sent, hist>>

\* The first loop of monitor_all raises nothing: BlockchainType(...)
\* accepts the "blockchain" of every dict of the batch.
TagsAccepted(batch) == \A i \in 1..Len(batch) : IsValidTag(batch[i].blockchain)

\* api.py route monitor_batch calling IranMonitor.monitor_all, up to its
\* first await: the first loop converts every spec's tag and creates the
\* coroutines (none of them starts to run); ValueError leaves monitor_all.
ApiMonitorBatch(batch) ==
    /\ UNCHANGED ofacVars
    /\ UNCHANGED settingsVars
    /\ lifecycle \in {"api", "stopped"}
    /\ pc = "idle"
    /\ entry' = "api_batch"
    /\ input' = batch
    /\ idx' = 1
    /\ results' = EmptyDict
    /\ IF TagsAccepted(batch)
       THEN /\ pc' = IF Len(batch) = 0 THEN "return" ELSE "send"
            /\ outcome' = NoOutcome
       ELSE /\ pc' = "done"
            /\ outcome' = Raise("ValueError")
    /\ UNCHANGED <<lifecycle, clients, fetcher, closeCount, inflight, sent, hist>>

\* main.py cmd_monitor, up to its first await: a string that is no tag
\* ends the process with exit code 1 before a monitor exists.
CmdMonitor(a, t) ==
    /\ UNCHANGED ofacVars
    /\ lifecycle = "boot"
    /\ pc = "idle"
    /\ entry' = "cli"
    /\ input' = <<AddrSpec(a, t)>>
    /\ idx' = 1
    /\ IF IsValidTag(t)
       THEN /\ clients' = NewMonitor
            /\ settings' = AfterCalls(settings, Len(MonitorParts))
            /\ settingsOf' = Constructed(settings, settingsOf, MonitorParts)
            /\ lifecycle' = "cli"
            /\ pc' = "send"
            /\ outcome' = NoOutcome
       ELSE /\ clients' = clients
            /\ UNCHANGED settingsVars
            /\ lifecycle' = "exited"
            /\ pc' = "done"
            /\ outcome' = Raise("SystemExit")
    /\ UNCHANGED <<fetcher, closeCount, results, inflight, sent, hist>>

\* tx.from_address.lower() == address.lower()
FromQueried(tx, address) ==
    Lower(AddressChars[tx.from_address]) = Lower(AddressChars[address])

\* The route's TransactionInfo for a transaction, with the direction it
\* derives; the lists of the model are shorter than any limit.
TransactionInfo(tx, address) ==
    [tx_hash |-> tx.tx_hash, blockchain |-> tx.blockchain,
     from_address |-> tx.from_address, to_address |-> tx.to_address,
     direction |-> IF FromQueried(tx, address) THEN "outgoing" ELSE "incoming"]

\* The line cmd_monitor prints for a transaction.
CliLine(tx, address) ==
    [tx_hash |-> tx.tx_hash, blockchain |-> tx.blockchain,
     from_address |-> tx.from_address, to_address |-> tx.to_address,
     direction |-> IF FromQueried(tx, address) THEN "OUT" ELSE "IN"]

\* What the route answers, or cmd_monitor prints, once monitor_address has
\* ended with ret: its exception, or one item for each transaction.
Reported(e, ret, address) ==
    IF ret.kind = "raise" THEN ret
    ELSE Return([i \in 1..Len(ret.value) |->
                    IF e = "cli" THEN CliLine(ret.value[i], address)
                    ELSE TransactionInfo(ret.value[i], address)])

\* A monitor_address call has ended with ret: monitor_all records its list,
\* or the empty list when it raised (except Exception), and goes on to the
\* next task; the route and the CLI get the list or the exception.
Complete(client, resp, ret) ==
    /\ hist' = Append(hist, [address |-> Current.address, blockchain |-> Current.blockchain,
                             op |-> Dispatch(Current.blockchain), client |-> client,
                             resp |-> resp, ret |-> ret])
    /\ IF entry = "api_batch"
       THEN /\ results' = DictSet(results, Current.address,
                                  IF ret.kind = "raise" THEN <<>> ELSE ret.value)
            /\ idx' = idx + 1
            /\ pc' = IF idx + 1 > Len(input) THEN "return" ELSE "send"
            /\ outcome' = outcome
       ELSE /\ outcome' = Reported(entry, ret, Current.address)
            /\ pc' = IF entry = "cli" THEN "finally" ELSE "done"
            /\ UNCHANGED <<results, idx>>

\* monitor_address starts to run (it is awaited): the tag selects the
\* operation, which sends its request.  A closed httpx client refuses to
\* send (RuntimeError); a tag no branch matches falls through to return [].
Send ==
    /\ UNCHANGED ofacVars
    /\ UNCHANGED settingsVars
    /\ pc = "send"
    /\ LET op == Dispatch(Current.blockchain) IN
         IF op = NoOp
         THEN Complete("none", NoAnswer, Return(<<>>)) /\ UNCHANGED <<inflight, sent>>
         ELSE IF clients[op.adapter] # "open"
         THEN Complete(clients[op.adapter], NoAnswer, Raise("RuntimeError"))
              /\ UNCHANGED <<inflight, sent>>
         ELSE /\ inflight' = inflight \cup {Request(idx, op, Current.address)}
              /\ sent' = Append(sent, Request(idx, op, Current.address))
              /\ pc' = "recv"
              /\ UNCHANGED <<idx, results, hist, outcome>>
    /\ UNCHANGED <<lifecycle, clients, fetcher, closeCount, entry, input>>

\* Recv with a retry policy: a failed or non-success answer makes the
\* operation send its request again.
RecvRetrying ==
    /\ UNCHANGED ofacVars
    /\ UNCHANGED settingsVars
    /\ pc = "recv"
    /\ \E req \in inflight :
         \E k \in 1..Len(Answers(req.op, req.address)) :
           LET resp == Answers(req.op, req.address)[k] IN
             IF (resp.kind = "neterr" \/ NonSuccess(resp)) /\ Len(sent) <= Len(input)
             THEN /\ sent' = Append(sent, req)
                  /\ UNCHANGED <<inflight, pc, idx, results, hist, outcome>>
             ELSE /\ inflight' = inflight \ {req}
                  /\ sent' = sent
                  /\ Complete("open", resp,
                              MonitorAddressResult(req.op, AdapterResult(req.op, req.address, resp)))
    /\ UNCHANGED <<lifecycle, clients, fetcher, closeCount, entry, input>>

\* The answer to the request arrives and the operation runs to its end.
Recv ==
    /\ UNCHANGED ofacVars
    /\ UNCHANGED settingsVars
    /\ pc = "recv"
    /\ \E req \in inflight :
         \E k \in 1..Len(Answers(req.op, req.address)) :
           LET resp == Answers(req.op, req.address)[k] IN
             /\ inflight' = inflight \ {req}
             /\ Complete("open", resp,
                         MonitorAddressResult(req.op, AdapterResult(req.op, req.address, resp)))
    /\ UNCHANGED <<lifecycle, clients, fetcher, closeCount, entry, input, sent>>

\* monitor_all returns results; the route answers with the counts.
MonitorAllReturn ==
    /\ UNCHANGED ofacVars
    /\ UNCHANGED settingsVars
    /\ pc = "return"
    /\ pc' = "done"
    /\ outcome' = Return(<<>>)
    /\ UNCHANGED <<lifecycle, clients, fetcher, closeCount, entry, input, idx,
                   results, inflight, sent, hist>>

\* cmd_monitor's finally: the monitor is closed, whatever the call ended with.
CmdMonitorFinally ==
    /\ UNCHANGED ofacVars
    /\ UNCHANGED settingsVars
    /\ pc = "finally"
    /\ pc' = "done"
    /\ lifecycle' = "exited"
    /\ clients' = CloseClients(clients)
    /\ closeCount' = CloseCounted(closeCount)
    /\ UNCHANGED <<fetcher, entry, input, idx, results, inflight, sent, hist, outcome>>

\* The route handler is over; the server waits for the next request.
Finish ==
    /\ UNCHANGED ofacVars
    /\ UNCHANGED settingsVars
    /\ pc = "done"
    /\ lifecycle \in {"api", "stopped"}
    /\ pc' = "idle"
    /\ entry' = "none"
    /\ input' = <<>>
    /\ idx' = 0
    /\ results' = EmptyDict
    /\ sent' = <<>>
    /\ hist' = <<>>
    /\ outcome' = NoOutcome
    /\ UNCHANGED <<lifecycle, clients, fetcher, closeCount, inflight>>

Next ==
    \/ Startup
    \/ Shutdown
    \/ \E a \in Addresses, t \in TagInputs : ApiMonitorAddress(a, t)
    \/ \E batch \in Batches : ApiMonitorBatch(batch)
    \/ \E a \in Addresses, t \in TagInputs : CmdMonitor(a, t)
    \/ Send
    \/ Recv
    \/ MonitorAllReturn
    \/ CmdMonitorFinally
    \/ Finish

Spec == Init /\ [][Next]_vars

\* ------------------------------------------------------- claims C1 .. C8
\* The elements of a sequence.
Range(seq) == {seq[i] : i \in 1..Len(seq)}

\* A monitor_all call has ended.
BatchDone == entry = "api_batch" /\ pc = "done"

\* Spec i of the batch is the last one with its address.
LastOfAddress(i) == \A j \in (i + 1)..Len(input) : input[j].address # input[i].address

\* What the results dict must hold for a completed monitor_address call.
Recorded(h) == IF h.ret.kind = "raise" THEN <<>> ELSE h.ret.value

\* C1: monitor_all never fails because of one address: whatever error the
\* processing of one spec raises, the call returns, every spec of the batch
\* has been processed, and the failing address holds the empty list.
C1_MonitorAllNeverFails ==
    BatchDone =>
        /\ outcome.kind = "return"
        /\ Len(hist) = Len(input)
        /\ \A i \in 1..Len(input) :
             /\ input[i].address \in DOMAIN results
             /\ (hist[i].ret.kind = "raise" /\ LastOfAddress(i))
                    => results[input[i].address] = <<>>

\* C2: a monitor_all call that returns has attempted each of the N specs
\* and returns a mapping of size N, where each spec's entry is the list its
\* own monitor_address call returned (the empty list if it raised).
C2_OneEntryPerSpec ==
    (BatchDone /\ outcome.kind = "return") =>
        /\ Len(hist) = Len(input)
        /\ Cardinality(DOMAIN results) = Len(input)
        /\ \A i \in 1..Len(input) : results[input[i].address] = Recorded(hist[i])

\* The error each entry point answers a string that is no tag with.
RejectionOf(e) ==
    IF e = "api_address" THEN "HTTPException400"
    ELSE IF e = "cli" THEN "SystemExit"
    ELSE "ValueError"

\* C3: at every entry point that takes a tag string (the route
\* monitor_address, cmd_monitor, each spec of a monitor_all batch), a string
\* outside the five tags ends the call with that entry point's error and no
\* request has been sent, nor any monitor_address call started.
C3_InvalidTagRejectedBeforeRequest ==
    (entry # "none" /\ \E i \in 1..Len(input) : input[i].blockchain \notin BlockchainType) =>
        /\ pc = "done"
        /\ outcome = Raise(RejectionOf(entry))
        /\ sent = <<>>
        /\ inflight = {}
        /\ hist = <<>>

\* C3's case: a batch whose second spec carries a string that is no tag,
\* after a first valid spec, has been rejected.
C3_Witness ==
    /\ BatchDone
    /\ Len(input) = 2
    /\ input[1].blockchain = "ethereum"
    /\ input[2].blockchain = "dogecoin"
    /\ outcome = Raise("ValueError")

\* C4: when the request of a monitor_address call fails, or is answered
\* with a non-success status, the call returns the empty list.
C4_UpstreamFailureGivesEmptyList ==
    \A i \in 1..Len(hist) :
        (hist[i].resp.kind = "neterr" \/ NonSuccess(hist[i].resp)) => hist[i].ret = Return(<<>>)

\* An answer holds an element that lacks a field the operation subscripts
\* when it builds a transaction from it.
LacksRequiredField(op, resp) ==
    /\ resp.kind = "http"
    /\ resp.isjson
    /\ IF op.adapter = "etherscan"
       THEN /\ "status" \in DOMAIN resp.data
            /\ resp.data.status = "1"
            /\ \E tx \in Range(resp.data.result) :
                 \E f \in {"hash", "from", "to", "value", "blockNumber", "timeStamp"} :
                   f \notin DOMAIN tx
       ELSE IF op = Op("trongrid", "get_transactions")
       THEN /\ "data" \in DOMAIN resp.data
            /\ \E tx \in Range(resp.data.data) :
                 /\ tx.raw_data.contract[1].type = "TransferContract"
                 /\ "txID" \notin DOMAIN tx
       ELSE IF op = Op("trongrid", "get_trc20_transfers")
       THEN /\ "data" \in DOMAIN resp.data
            /\ \E tx \in Range(resp.data.data) : "transaction_id" \notin DOMAIN tx
       ELSE FALSE

\* C5: an answer with an element lacking a required field makes the adapter
\* call fail as a whole with the missing-field error (Python's KeyError
\* stands for the design's AdapterError): no list is returned; and inside
\* monitor_all the failure is absorbed: the call does not raise and the
\* address is recorded with the empty list.
C5_MissingFieldFailsTheCall ==
    \A i \in 1..Len(hist) :
        LacksRequiredField(hist[i].op, hist[i].resp) =>
            /\ hist[i].ret = Raise("KeyError")
            /\ entry = "api_batch" =>
                 /\ outcome.kind # "raise"
                 /\ hist[i].address \in DOMAIN results
                 /\ (i = Len(hist) \/ LastOfAddress(i)) => results[hist[i].address] = <<>>

\* C5's case: a batch has returned in which one spec's answer lacked a field
\* and another spec's answer gave transactions.
C5_Witness ==
    /\ BatchDone
    /\ outcome.kind = "return"
    /\ \E i, j \in 1..Len(hist) :
         /\ LacksRequiredField(hist[i].op, hist[i].resp)
         /\ hist[i].address # hist[j].address
         /\ results[hist[i].address] = <<>>
         /\ Len(results[hist[j].address]) > 0

\* The operation the design gives each tag.
ExpectedOp ==
    [ethereum |-> Op("etherscan", "get_transactions"),
     usdt_erc20 |-> Op("etherscan", "get_token_transfers"),
     tron |-> Op("trongrid", "get_transactions"),
     usdt_trc20 |-> Op("trongrid", "get_trc20_transfers"),
     bitcoin |-> Op("blockchair", "get_address_info")]

\* C6: each monitor_address call on a live monitor sends exactly one
\* request, the one of the operation its tag selects, and ends with what
\* that operation ends with: its list unchanged, or for bitcoin the empty
\* list once the summary request has been answered.
C6_OneOperationPerTag ==
    /\ \A k \in 1..Len(sent) :
         /\ sent[k].op = ExpectedOp[input[sent[k].i].blockchain]
         /\ sent[k].address = input[sent[k].i].address
         /\ \A m \in 1..Len(sent) : sent[m].i = sent[k].i => m = k
    /\ \A i \in 1..Len(hist) :
         hist[i].client = "open" =>
            LET own == AdapterResult(ExpectedOp[hist[i].blockchain], hist[i].address, hist[i].resp)
            IN  /\ \E k \in 1..Len(sent) : sent[k].i = i
                /\ hist[i].resp # NoAnswer
                /\ hist[i].ret = IF own.kind = "raise" THEN own
                                 ELSE IF hist[i].blockchain = "bitcoin" THEN Return(<<>>)
                                 ELSE own

\* C6's case: the route has returned the two token transfers of a
\* usdt_erc20 address.
C6_Witness ==
    /\ entry = "api_address"
    /\ pc = "done"
    /\ input[1].blockchain = "usdt_erc20"
    /\ sent = <<Request(1, Op("etherscan", "get_token_transfers"), input[1].address)>>
    /\ outcome.kind = "return"
    /\ Len(outcome.value) = 2

\* C7: monitor_all runs its batch concurrently: while the request of one
\* spec is awaited, the requests of the later specs are in flight too.
C7_RequestsInterleave ==
    (entry = "api_batch" /\ pc = "recv") =>
        \A j \in (idx + 1)..Len(input) : \E r \in inflight : r.i = j

\* C8: each adapter is closed exactly once in a lifecycle that created the
\* monitor (never twice, and once the lifecycle is over), and a
\* monitor_address call made after the close ends at once with an error:
\* it sends no request, so it neither waits nor returns a result.
C8_ClosedOnceThenFailFast ==
    /\ \A a \in Adapters :
         /\ closeCount[a] <= 1
         /\ clients[a] = "closed" <=> closeCount[a] = 1
         /\ (lifecycle \in {"stopped", "exited"} /\ clients[a] # "none") => clients[a] = "closed"
    /\ lifecycle = "stopped" => (sent = <<>> /\ inflight = {} /\ pc \in {"idle", "send", "return", "done"})
    /\ \A i \in 1..Len(hist) :
         hist[i].client = "closed" =>
            /\ hist[i].ret = Raise("RuntimeError")
            /\ hist[i].resp = NoAnswer
            /\ entry = "api_address" => outcome = Raise("RuntimeError")

\* C8's case: after shutdown the route has been called for a bitcoin
\* address and has ended with the closed client's error.
C8_Witness ==
    /\ lifecycle = "stopped"
    /\ \A a \in Adapters : closeCount[a] = 1
    /\ entry = "api_address"
    /\ pc = "done"
    /\ input[1].blockchain = "bitcoin"
    /\ outcome = Raise("RuntimeError")

\* ====================================================== sanctions ingestion
\* Text that the code searches (program codes, names, remarks) is held as a
\* sequence of characters; text it only compares as a whole (uid, sdnType,
\* idType, idNumber) as a string.

\* sub in s
Contains(sub, s) ==
    \E i \in 0..(Len(s) - Len(sub)) : SubSeq(s, i + 1, i + Len(sub)) = sub

\* sep.join(parts)
RECURSIVE Join(_, _)
Join(sep, parts) ==
    IF parts = <<>> THEN <<>>
    ELSE IF Len(parts) = 1 THEN parts[1]
    ELSE parts[1] \o sep \o Join(sep, Tail(parts))

\* An element's .text: None for an element without text, else the text.
NoneText == [none |-> TRUE, s |-> <<>>]
Text(s) == [none |-> FALSE, s |-> s]
NoneStr == [none |-> TRUE, s |-> ""]
Str(s) == [none |-> FALSE, s |-> s]

\* OFACIranFetcher.IRAN_PROGRAMS
IRAN_PROGRAMS == <<<<"I", "R", "A", "N">>, <<"I", "R", "G", "C">>, <<"I", "R", "A", "N", "-", "H", "R">>,
                   <<"I", "R", "A", "N", "-", "T", "R", "A">>, <<"I", "R", "A", "N", "-", "E", "O", "1", "3", "8", "4", "6">>>>

\* OFACIranFetcher.CRYPTO_ID_TYPES
CRYPTO_ID_TYPES_LTC ==
    <<"Digital Currency Address - XBT", "Digital Currency Address - ETH",
      "Digital Currency Address - USDT", "Digital Currency Address - TRX",
      "Digital Currency Address - LTC">>
CRYPTO_ID_TYPES == <<"Digital Currency Address - XBT", "Digital Currency Address - ETH",
                     "Digital Currency Address - USDT", "Digital Currency Address - TRX">>

\* OFACIranFetcher._parse_blockchain_type: mapping.get(id_type, "unknown")
ParseBlockchainTypeErc(id_type) ==
    IF id_type = "Digital Currency Address - XBT" THEN "bitcoin"
    ELSE IF id_type = "Digital Currency Address - ETH" THEN "ethereum"
    ELSE IF id_type = "Digital Currency Address - USDT" THEN "usdt_erc20"
    ELSE IF id_type = "Digital Currency Address - TRX" THEN "tron"
    ELSE "unknown"
ParseBlockchainType(id_type) ==
    IF id_type = "Digital Currency Address - XBT" THEN "bitcoin"
    ELSE IF id_type = "Digital Currency Address - ETH" THEN "ethereum"
    ELSE IF id_type = "Digital Currency Address - USDT" THEN "usdt_trc20"
    ELSE IF id_type = "Digital Currency Address - TRX" THEN "tron"
    ELSE "unknown"

\* An sdnEntry element is a record with a field for each child element that
\* is present: programs (the text of each program element below it), uid,
\* firstName, lastName, sdnType, remarks, idList (the id elements, each
\* with its idType and idNumber if present), akaList (the aka elements,
\* each with its lastName if present).

\* [p.text for p in programs if p.text]
ProgramNames(e) == LET named(p) == ~p.none /\ p.s # <<>> IN
    [i \in 1..Len(SelectSeq(e.programs, named)) |-> SelectSeq(e.programs, named)[i].s]

\* [p for p in program_names if any(ip in p for ip in IRAN_PROGRAMS)]
IranProgramsExact(e) ==
    LET isIran(p) == \E k \in 1..Len(IRAN_PROGRAMS) : IRAN_PROGRAMS[k] = p
    IN  SelectSeq(ProgramNames(e), isIran)
IranPrograms(e) ==
    LET isIran(p) == \E k \in 1..Len(IRAN_PROGRAMS) : Contains(IRAN_PROGRAMS[k], p)
    IN  SelectSeq(ProgramNames(e), isIran)

\* elem.text if elem is not None else ""
TextOr(e, f, default) == IF f \in DOMAIN e THEN e[f] ELSE default

\* " ".join(filter(None, [first name, last name]))
NameOf(e) ==
    LET truthy(t) == ~t.none /\ t.s # <<>>
        parts == SelectSeq(<<TextOr(e, "firstName", Text(<<>>)), TextOr(e, "lastName", Text(<<>>))>>,
                           truthy)
    IN  Join(<<" ">>, [i \in 1..Len(parts) |-> parts[i].s])

\* The crypto addresses of the entry's idList.
CryptoAddressesAny(e) ==
    LET ids == IF "idList" \in DOMAIN e THEN e.idList ELSE <<>>
        isTyped(id) == "idType" \in DOMAIN id /\ ~id.idType.none
        kept == SelectSeq(ids, isTyped)
    IN  [i \in 1..Len(kept) |->
            [address |-> TextOr(kept[i], "idNumber", Str("")),
             blockchain |-> ParseBlockchainType(kept[i].idType.s),
             id_type |-> kept[i].idType.s]]
CryptoAddresses(e) ==
    LET ids == IF "idList" \in DOMAIN e THEN e.idList ELSE <<>>
        isCrypto(id) == /\ "idType" \in DOMAIN id
                        /\ ~id.idType.none
                        /\ \E k \in 1..Len(CRYPTO_ID_TYPES) : CRYPTO_ID_TYPES[k] = id.idType.s
        kept == SelectSeq(ids, isCrypto)
    IN  [i \in 1..Len(kept) |->
            [address |-> TextOr(kept[i], "idNumber", Str("")),
             blockchain |-> ParseBlockchainType(kept[i].idType.s),
             id_type |-> kept[i].idType.s]]

\* The aliases of the entry's akaList.
Aliases(e) ==
    LET akas == IF "akaList" \in DOMAIN e THEN e.akaList ELSE <<>>
        named(aka) == "lastName" \in DOMAIN aka /\ ~aka.lastName.none /\ aka.lastName.s # <<>>
        kept == SelectSeq(akas, named)
    IN  [i \in 1..Len(kept) |-> kept[i].lastName.s]

sIRGC == <<"I", "R", "G", "C">>
sExchange == <<"e", "x", "c", "h", "a", "n", "g", "e">>

\* any("IRGC" in p for p in iran_programs)
IrgcProgram(e) == \E k \in 1..Len(IranPrograms(e)) : Contains(sIRGC, IranPrograms(e)[k])

\* "exchange" in name.lower()
ExchangeName(e) == Contains(sExchange, Lower(NameOf(e)))

\* The flag expressions call remarks.upper() and remarks.lower() unless the
\* left operand of their `or` is already true; remarks is None for a
\* remarks element without text, and None has no such method.
FlagsRaise(e) ==
    TextOr(e, "remarks", Text(<<>>)).none /\ (~IrgcProgram(e) \/ ~ExchangeName(e))

\* The IranDesignation built from a retained entry.
Designation(e) ==
    LET remarks == TextOr(e, "remarks", Text(<<>>)) IN
    [sdn_id |-> TextOr(e, "uid", Str("")),
     name |-> NameOf(e),
     sdn_type |-> TextOr(e, "sdnType", Str("")),
     program |-> Join(<<",", " ">>, IranPrograms(e)),
     crypto_addresses |-> CryptoAddresses(e),
     aliases |-> Aliases(e),
     remarks |-> remarks,
     is_irgc |-> IrgcProgram(e) \/ Contains(sIRGC, Upper(remarks.s)),
     is_exchange |-> ExchangeName(e) \/ Contains(sExchange, Lower(remarks.s))]

\* OFACIranFetcher.parse_iran_designations: ET.fromstring raises ParseError
\* on markup that is not well-formed; the loop over the entries ends with
\* the first exception.
ParseIranDesignations(xml) ==
    IF ~xml.wellformed THEN Raise("ParseError")
    ELSE LET retained(e) == IranPrograms(e) # <<>>
             kept == SelectSeq(xml.entries, retained)
         IN  IF \E i \in 1..Len(kept) : FlagsRaise(kept[i])
             THEN Raise("AttributeError")
             ELSE Return([i \in 1..Len(kept) |-> Designation(kept[i])])

\* OFACIranFetcher.fetch_sdn_xml: the GET, then raise_for_status.
FetchSdnXmlUnchecked(resp) ==
    IF resp.kind = "neterr" THEN Raise("ConnectError")
    ELSE Return(resp.body)
FetchSdnXml(resp) ==
    IF resp.kind = "neterr" THEN Raise("ConnectError")
    ELSE IF resp.status >= 400 THEN Raise("HTTPStatusError")
    ELSE Return(resp.body)

\* The records of one designation's crypto addresses.
AddressRecordsFirst(d) ==
    [i \in 1..(IF Len(d.crypto_addresses) > 0 THEN 1 ELSE 0) |->
        [address |-> d.crypto_addresses[i].address,
         blockchain |-> d.crypto_addresses[i].blockchain,
         sdn_id |-> d.sdn_id, sdn_name |-> d.name, program |-> d.program,
         is_irgc |-> d.is_irgc, is_exchange |-> d.is_exchange]]
AddressRecords(d) ==
    [i \in 1..Len(d.crypto_addresses) |->
        [address |-> d.crypto_addresses[i].address,
         blockchain |-> d.crypto_addresses[i].blockchain,
         sdn_id |-> d.sdn_id, sdn_name |-> d.name, program |-> d.program,
         is_irgc |-> d.is_irgc, is_exchange |-> d.is_exchange]]

\* The two nested loops of get_iran_crypto_addresses.
RECURSIVE Flatten(_)
Flatten(designations) ==
    IF designations = <<>> THEN <<>>
    ELSE AddressRecords(Head(designations)) \o Flatten(Tail(designations))

\* OFACIranFetcher.get_iran_crypto_addresses, from the answer to its GET:
\* what parse_iran_designations ended with (if it ran) and what the call
\* ends with.
ParsedOf(resp) ==
    IF FetchSdnXml(resp).kind = "raise" THEN NoOutcome
    ELSE ParseIranDesignations(FetchSdnXml(resp).value)
GetIranCryptoAddresses(resp) ==
    IF FetchSdnXml(resp).kind = "raise" THEN FetchSdnXml(resp)
    ELSE IF ParsedOf(resp).kind = "raise" THEN ParsedOf(resp)
    ELSE Return(Flatten(ParsedOf(resp).value))

\* ------------------------------------------------------ sanctions documents
\* Most sdnEntry elements a document holds.
MaxEntries == 2

XbtId == [idType |-> Str("Digital Currency Address - XBT"), idNumber |-> Str("bc1q")]
UsdtId == [idType |-> Str("Digital Currency Address - USDT"), idNumber |-> Str("TB2")]
PassportId == [idType |-> Str("Passport"), idNumber |-> Str("P1")]

\* The entries documents are made of.
EntryBank ==
    [programs |-> <<Text(<<"I", "R", "A", "N">>)>>, uid |-> Str("1"), lastName |-> Text(<<"B", "A", "N", "K">>),
     sdnType |-> Str("Entity"), remarks |-> Text(<<"L", "i", "n", "k", "e", "d">>), idList |-> <<XbtId, PassportId>>]
EntryGuard ==
    [programs |-> <<Text(<<"S", "D", "G", "T">>), Text(<<"I", "R", "G", "C">>)>>, uid |-> Str("2"),
     firstName |-> Text(<<"A", "l", "i">>), lastName |-> Text(<<"X">>), sdnType |-> Str("Individual"),
     remarks |-> Text(<<"i", "r", "g", "c", " ", "f", "r", "o", "n", "t">>), akaList |-> <<[lastName |-> Text(<<"Y">>)]>>]
EntryTra ==
    [programs |-> <<Text(<<"I", "R", "A", "N", "-", "T", "R", "A">>)>>, uid |-> Str("3"), lastName |-> Text(<<"Z", " ", "E", "x", "c", "h", "a", "n", "g", "e">>),
     idList |-> <<UsdtId>>]
EntryOther ==
    [programs |-> <<Text(<<"S", "D", "G", "T">>)>>, uid |-> Str("4"), lastName |-> Text(<<"X">>),
     remarks |-> NoneText, idList |-> <<XbtId>>]
EntryNoRemarkText ==
    [programs |-> <<Text(<<"I", "R", "A", "N">>)>>, uid |-> Str("5"), lastName |-> Text(<<"B", "A", "N", "K">>),
     remarks |-> NoneText]
EntryGuardExchange ==
    [programs |-> <<Text(<<"I", "R", "G", "C">>)>>, uid |-> Str("6"), lastName |-> Text(<<"Z", " ", "E", "x", "c", "h", "a", "n", "g", "e">>),
     remarks |-> NoneText, idList |-> <<UsdtId>>]
EntryBare == [programs |-> <<NoneText, Text(<<"I", "R", "A", "N", "-", "H", "R">>)>>]

EthId == [idType |-> Str("Digital Currency Address - ETH"), idNumber |-> Str("0xA1")]
LtcId == [idType |-> Str("Digital Currency Address - LTC"), idNumber |-> Str("L1")]
UntypedId == [idNumber |-> Str("N1")]
EntryArms ==
    [programs |-> <<Text(<<"S", "D", "G", "T">>), Text(<<"I", "R", "A", "N", "-", "C", "O", "N", "-", "A", "R", "M", "S", "-", "E", "O">>),
                    Text(<<"I", "F", "S", "R">>), Text(<<"I", "R", "G", "C">>)>>,
     uid |-> Str("7"), firstName |-> Text(<<"E", "x">>), lastName |-> Text(<<"C", "h", "a", "n", "g", "e", " ", "C", "o">>),
     sdnType |-> Str("Entity"), remarks |-> Text(<<"n", "o", "n", "e">>),
     idList |-> <<PassportId, EthId, LtcId, UntypedId, XbtId>>,
     akaList |-> <<[lastName |-> Text(<<"E", "x", "c", "h", "a", "n", "g", "e">>)]>>]
EntryFront ==
    [programs |-> <<Text(<<"I", "R", "A", "N">>)>>, uid |-> Str("8"), lastName |-> Text(<<"Q">>), sdnType |-> Str("Entity"),
     remarks |-> Text(<<"I", "r", "g", "c", " ", "E", "X", "C", "H", "A", "N", "G", "E", " ", "h", "o", "u", "s", "e">>)]

EntryWallet ==
    [programs |-> <<Text(<<"I", "R", "A", "N", "-", "E", "O", "1", "3", "8", "4", "6">>)>>, uid |-> Str("9"), lastName |-> Text(<<"W">>), sdnType |-> Str("Entity"),
     idList |-> <<XbtId>>]

EntryPool == <<EntryBank, EntryGuard, EntryTra, EntryOther, EntryNoRemarkText,
               EntryGuardExchange, EntryBare, EntryArms, EntryFront, EntryWallet>>

\* A document: well-formed markup with its sdnEntry elements, or markup
\* that is not well-formed.
Document(entries) == [wellformed |-> TRUE, entries |-> entries]
Malformed == [wellformed |-> FALSE, entries |-> <<>>]

Documents ==
    {Malformed} \cup
    {Document([i \in DOMAIN f |-> EntryPool[f[i]]]) :
        f \in UNION {[1..n -> 1..Len(EntryPool)] : n \in 0..MaxEntries}}

\* The answers the GET of the SDN document can get: the request fails, or a
\* response arrives with a status and a body.
SdnAnswers ==
    {[kind |-> "neterr", status |-> 0, body |-> Malformed]} \cup
    {[kind |-> "http", status |-> st, body |-> d] : st \in {200, 404, 503}, d \in Documents}

SdnRequest == Request(1, Op("ofac", "fetch_sdn_xml"), "sdn.xml")

\* main.py cmd_fetch, up to its first await: the fetcher is created and
\* get_iran_crypto_addresses sends the GET of fetch_sdn_xml.
CmdFetch ==
    /\ lifecycle = "boot"
    /\ pc = "idle"
    /\ lifecycle' = "cli"
    /\ fetcher' = "open"
    /\ settings' = AfterCalls(settings, 1)
    /\ settingsOf' = Constructed(settings, settingsOf, <<"fetcher">>)
    /\ entry' = "cmd_fetch"
    /\ pc' = "recv"
    /\ inflight' = {SdnRequest}
    /\ sent' = <<SdnRequest>>
    /\ UNCHANGED <<clients, closeCount, input, idx, results, hist, outcome, answer, parsed>>

\* The answer arrives: fetch_sdn_xml checks the status, the document is
\* parsed and the designations flattened; an exception of any of the three
\* leaves get_iran_crypto_addresses.
SdnAnswer ==
    /\ entry = "cmd_fetch"
    /\ UNCHANGED settingsVars
    /\ pc = "recv"
    /\ \E resp \in SdnAnswers :
         /\ answer' = resp
         /\ parsed' = ParsedOf(resp)
         /\ outcome' = GetIranCryptoAddresses(resp)
    /\ inflight' = {}
    /\ pc' = "finally"
    /\ UNCHANGED <<lifecycle, clients, fetcher, closeCount, entry, input, idx, results,
                   sent, hist>>

\* cmd_fetch's finally: the fetcher is closed.
CmdFetchFinally ==
    /\ entry = "cmd_fetch"
    /\ UNCHANGED settingsVars
    /\ pc = "finally"
    /\ fetcher' = "closed"
    /\ lifecycle' = "exited"
    /\ pc' = "done"
    /\ UNCHANGED <<clients, closeCount, entry, input, idx, results, inflight, sent,
                   hist, outcome, answer, parsed>>

NextOFAC ==
    \/ CmdFetch
    \/ SdnAnswer
    \/ CmdFetchFinally

SpecOFAC == Init /\ [][NextOFAC]_vars

\* ------------------------------------------------------ claims C9 .. C10
\* get_iran_crypto_addresses has ended.
FetchDone == entry = "cmd_fetch" /\ pc \in {"finally", "done"}

\* C9: get_iran_crypto_addresses sends a single GET; when the answer has a
\* non-success status, or its body is not well-formed markup, the call ends
\* with the error (HTTPStatusError, ParseError) and returns no list.
C9_IngestionAllOrNothing ==
    /\ entry = "cmd_fetch" => sent = <<SdnRequest>>
    /\ FetchDone =>
         /\ (answer.kind = "http" /\ answer.status >= 400) => outcome = Raise("HTTPStatusError")
         /\ (answer.kind = "http" /\ answer.status < 400 /\ ~answer.body.wellformed) =>
                (parsed = Raise("ParseError") /\ outcome = Raise("ParseError"))
         /\ outcome.kind \in {"return", "raise"}
         /\ outcome.kind = "raise" => outcome.value = <<>>

\* C9's case: the document arrived with status 200 and is not well-formed;
\* the call has ended with the parse error.
C9_Witness ==
    /\ FetchDone
    /\ answer.kind = "http"
    /\ answer.status = 200
    /\ ~answer.body.wellformed
    /\ outcome = Raise("ParseError")

\* C10: for a well-formed document parse_iran_designations returns a
\* sequence and raises nothing, and every designation's remarks is a
\* string (the empty one when the entry's remarks has no text).
C10_WellFormedNeverRaises ==
    (FetchDone /\ answer.kind = "http" /\ answer.status = 200 /\ answer.body.wellformed) =>
        /\ parsed.kind = "return"
        /\ \A i \in 1..Len(parsed.value) : ~parsed.value[i].remarks.none

\* ------------------------------------------------ identifier-type classifier
\* Most calls of _parse_blockchain_type a caller makes on one fetcher.
MaxCalls == 2

\* Identifier-type strings a caller may pass: the four of the mapping, and
\* strings outside it (other identifier types, other spellings of mapped
\* ones, a tag, the empty string).
IdTypeInputs ==
    {"Digital Currency Address - XBT", "Digital Currency Address - ETH",
     "Digital Currency Address - USDT", "Digital Currency Address - TRX",
     "Digital Currency Address - LTC", "digital currency address - xbt",
     "Digital Currency Address - XBT ", "Unknown Type", "Passport", "XBT",
     "bitcoin", ""}

\* A caller creates a fetcher to call the classifier on, as
\* test_blockchain_type_parsing does.
NewFetcher ==
    /\ lifecycle = "boot"
    /\ pc = "idle"
    /\ lifecycle' = "test"
    /\ fetcher' = "open"
    /\ settings' = AfterCalls(settings, 1)
    /\ settingsOf' = Constructed(settings, settingsOf, <<"fetcher">>)
    /\ entry' = "_parse_blockchain_type"
    /\ UNCHANGED <<clients, closeCount, input, pc, idx, results, inflight, sent, hist,
                   outcome, answer, parsed>>

\* fetcher._parse_blockchain_type(id_type): the call and what it returned.
CallParseBlockchainType(id_type) ==
    /\ entry = "_parse_blockchain_type"
    /\ UNCHANGED settingsVars
    /\ Len(hist) < MaxCalls
    /\ hist' = Append(hist, [id_type |-> id_type, blockchain |-> ParseBlockchainType(id_type)])
    /\ UNCHANGED <<lifecycle, clients, fetcher, closeCount, entry, input, pc, idx, results,
                   inflight, sent, outcome, answer, parsed>>

NextClassifier ==
    \/ NewFetcher
    \/ \E id_type \in IdTypeInputs : CallParseBlockchainType(id_type)

SpecClassifier == Init /\ [][NextClassifier]_vars

\* ---------------------------------------------------- claims C11 .. C16
\* parse_iran_designations has returned its list.
Parsed == FetchDone /\ parsed.kind = "return"

\* A program field's text contains one of the target codes.
HasTargetCode(p) == \E k \in 1..Len(IRAN_PROGRAMS) : Contains(IRAN_PROGRAMS[k], p)

\* The program fields of an entry that contain a target code, in source order.
MatchedPrograms(e) ==
    LET matched(p) == ~p.none /\ HasTargetCode(p.s)
    IN  [i \in 1..Len(SelectSeq(e.programs, matched)) |-> SelectSeq(e.programs, matched)[i].s]

\* The entries of a document with at least one such program field.
RetainedEntries(doc) ==
    LET retained(e) == MatchedPrograms(e) # <<>>
    IN  SelectSeq(doc.entries, retained)

\* C11: the designations returned are, in order, those of the entries with
\* at least one program field that contains a target code as a substring
\* (one designation for each such entry, none for any other entry), and
\* each designation's program list is non-empty and made of exactly its
\* entry's program fields that contain a target code, in source order.
C11_RetainedIffTargetProgram ==
    Parsed =>
        LET kept == RetainedEntries(answer.body) IN
        /\ Len(parsed.value) = Len(kept)
        /\ \A i \in 1..Len(kept) :
             /\ parsed.value[i].sdn_id = TextOr(kept[i], "uid", Str(""))
             /\ parsed.value[i].program # <<>>
             /\ parsed.value[i].program = Join(<<",", " ">>, MatchedPrograms(kept[i]))

\* C11's case: a document with an entry of no target program followed by
\* an entry whose second and fourth program fields match, one of them a
\* compound code, has been parsed into the one designation.
C11_Witness ==
    /\ Parsed
    /\ answer.body.entries = <<EntryOther, EntryArms>>
    /\ Len(parsed.value) = 1
    /\ parsed.value[1].sdn_id = Str("7")
    /\ parsed.value[1].program = Join(<<",", " ">>, <<MatchedPrograms(EntryArms)[1], IRAN_PROGRAMS[2]>>)

\* The blockchain the mapping table gives an identifier type.
MappingTable ==
    [t \in {"Digital Currency Address - XBT", "Digital Currency Address - ETH",
            "Digital Currency Address - USDT", "Digital Currency Address - TRX"} |->
        CASE t = "Digital Currency Address - XBT" -> "bitcoin"
          [] t = "Digital Currency Address - ETH" -> "ethereum"
          [] t = "Digital Currency Address - USDT" -> "usdt_trc20"
          [] t = "Digital Currency Address - TRX" -> "tron"]

\* C12: _parse_blockchain_type returns for every string: the blockchain of
\* the mapping table for its four identifier types (XBT bitcoin, ETH
\* ethereum, USDT usdt_trc20, TRX tron), and "unknown" for any other string.
C12_ClassifierIsTheTable ==
    entry = "_parse_blockchain_type" =>
        \A i \in 1..Len(hist) :
            hist[i].blockchain = IF hist[i].id_type \in DOMAIN MappingTable
                                 THEN MappingTable[hist[i].id_type]
                                 ELSE "unknown"

\* C12's case: the classifier has been called with the USDT identifier
\* type and with a string that differs from a mapped one in case only.
C12_Witness ==
    /\ entry = "_parse_blockchain_type"
    /\ Len(hist) = 2
    /\ hist[1] = [id_type |-> "Digital Currency Address - USDT", blockchain |-> "usdt_trc20"]
    /\ hist[2] = [id_type |-> "digital currency address - xbt", blockchain |-> "unknown"]

\* The identifiers of an entry's id list whose declared type is in the
\* allow-list, in source order.
AllowedIds(e) ==
    LET ids == IF "idList" \in DOMAIN e THEN e.idList ELSE <<>>
        allowed(id) == /\ "idType" \in DOMAIN id
                       /\ ~id.idType.none
                       /\ id.idType.s \in Range(CRYPTO_ID_TYPES)
    IN  SelectSeq(ids, allowed)

\* C13: for each retained entry the designation's crypto_addresses are
\* exactly the identifiers of its id list whose declared type is in
\* CRYPTO_ID_TYPES, in source order, each with the blockchain the mapping
\* table gives its type, and no identifier of another type; a document
\* whose one Iran-program entry holds one XBT identifier gives one
\* designation with one crypto address, of blockchain bitcoin.
C13_CryptoAddressesAreTheAllowedIds ==
    Parsed =>
        LET kept == RetainedEntries(answer.body) IN
        /\ Len(parsed.value) = Len(kept)
        /\ \A i \in 1..Len(kept) :
             LET want == AllowedIds(kept[i])
                 got == parsed.value[i].crypto_addresses
             IN  /\ Len(got) = Len(want)
                 /\ \A j \in 1..Len(want) :
                      /\ got[j].id_type = want[j].idType.s
                      /\ got[j].blockchain = MappingTable[want[j].idType.s]
                      /\ got[j].address = TextOr(want[j], "idNumber", Str(""))
        /\ (Len(kept) = 1 /\ "idList" \in DOMAIN kept[1] /\ kept[1].idList = <<XbtId>>) =>
               /\ Len(parsed.value) = 1
               /\ Len(parsed.value[1].crypto_addresses) = 1
               /\ parsed.value[1].crypto_addresses[1].blockchain = "bitcoin"

\* C13's case: an entry whose id list holds a passport, an ETH address, an
\* LTC address, an identifier without type and an XBT address has given a
\* designation with the ETH and the XBT address, in that order.
C13_Witness ==
    /\ Parsed
    /\ answer.body.entries = <<EntryWallet, EntryArms>>
    /\ Len(parsed.value[1].crypto_addresses) = 1
    /\ parsed.value[1].crypto_addresses[1].blockchain = "bitcoin"
    /\ Len(parsed.value[2].crypto_addresses) = 2
    /\ parsed.value[2].crypto_addresses[1].blockchain = "ethereum"
    /\ parsed.value[2].crypto_addresses[2].blockchain = "bitcoin"

\* Two characters are the same letter, whatever their case.
SameLetter(a, b) ==
    \/ a = b
    \/ \E i \in 1..Len(LowerLetters) : {a, b} = {LowerLetters[i], UpperLetters[i]}

\* The text holds the word, case-insensitively.
ContainsAnyCase(word, text) ==
    \E i \in 0..(Len(text) - Len(word)) :
        \A k \in 1..Len(word) : SameLetter(text[i + k], word[k])

\* C14: for every designation returned, is_irgc is true if and only if one
\* of its matched program codes contains "IRGC" or its remarks contain
\* "IRGC" case-insensitively; so an entry of program IRGC with remarks
\* holding the marker is flagged, and an entry of program IRAN-TRA without
\* the marker is not.
C14_IrgcFlag ==
    Parsed =>
        LET kept == RetainedEntries(answer.body) IN
        /\ Len(parsed.value) = Len(kept)
        /\ \A i \in 1..Len(kept) :
             parsed.value[i].is_irgc <=>
                \/ \E k \in 1..Len(MatchedPrograms(kept[i])) :
                        Contains(sIRGC, MatchedPrograms(kept[i])[k])
                \/ /\ ~parsed.value[i].remarks.none
                   /\ ContainsAnyCase(sIRGC, parsed.value[i].remarks.s)
        /\ \A i \in 1..Len(kept) :
             /\ (MatchedPrograms(kept[i]) = <<sIRGC>>
                    /\ ContainsAnyCase(sIRGC, TextOr(kept[i], "remarks", Text(<<>>)).s))
                  => parsed.value[i].is_irgc
             /\ (MatchedPrograms(kept[i]) = <<IRAN_PROGRAMS[4]>>
                    /\ ~ContainsAnyCase(sIRGC, TextOr(kept[i], "remarks", Text(<<>>)).s))
                  => ~parsed.value[i].is_irgc

\* C14's case: the document of the two entries, the first of program IRGC
\* with remarks holding the marker in lower case, the second of program
\* IRAN-TRA, has been parsed: the first is flagged, the second is not.
C14_Witness ==
    /\ Parsed
    /\ answer.body.entries = <<EntryGuard, EntryTra>>
    /\ parsed.value[1].is_irgc
    /\ ~parsed.value[2].is_irgc

\* C15: for every designation returned, is_exchange is true if and only if
\* its assembled name or its remarks contain "exchange" case-insensitively;
\* two designations with the same name and remarks have the same flag,
\* whatever their programs, aliases and crypto addresses.
C15_ExchangeFlag ==
    Parsed =>
        /\ \A i \in 1..Len(parsed.value) :
             parsed.value[i].is_exchange <=>
                \/ ContainsAnyCase(sExchange, parsed.value[i].name)
                \/ /\ ~parsed.value[i].remarks.none
                   /\ ContainsAnyCase(sExchange, parsed.value[i].remarks.s)
        /\ \A i, j \in 1..Len(parsed.value) :
             (/\ parsed.value[i].name = parsed.value[j].name
              /\ parsed.value[i].remarks.s = parsed.value[j].remarks.s)
                 => parsed.value[i].is_exchange = parsed.value[j].is_exchange

\* C15's case: an entry named "Ex Change Co" with the alias "Exchange" and
\* an entry whose remarks hold "EXCHANGE" have been parsed: the first is
\* not flagged, the second is.
C15_Witness ==
    /\ Parsed
    /\ answer.body.entries = <<EntryArms, EntryFront>>
    /\ parsed.value[1].aliases = <<EntryArms.akaList[1].lastName.s>>
    /\ ~parsed.value[1].is_exchange
    /\ parsed.value[2].is_exchange

\* The number of crypto addresses of the first n designations.
RECURSIVE AddressCount(_, _)
AddressCount(designations, n) ==
    IF n = 0 THEN 0
    ELSE AddressCount(designations, n - 1) + Len(designations[n].crypto_addresses)

\* C16: get_iran_crypto_addresses returns one record for each
\* (designation, crypto address) pair, in designation order then address
\* order, with the address and blockchain of the crypto address and the
\* sdn_id, name, program, is_irgc and is_exchange of its designation; its
\* length is the sum of the designations' crypto-address counts.
C16_FlattenedJoin ==
    Parsed =>
        /\ outcome.kind = "return"
        /\ Len(outcome.value) = AddressCount(parsed.value, Len(parsed.value))
        /\ \A i \in 1..Len(parsed.value) :
             \A j \in 1..Len(parsed.value[i].crypto_addresses) :
                outcome.value[AddressCount(parsed.value, i - 1) + j] =
                    [address |-> parsed.value[i].crypto_addresses[j].address,
                     blockchain |-> parsed.value[i].crypto_addresses[j].blockchain,
                     sdn_id |-> parsed.value[i].sdn_id,
                     sdn_name |-> parsed.value[i].name,
                     program |-> parsed.value[i].program,
                     is_irgc |-> parsed.value[i].is_irgc,
                     is_exchange |-> parsed.value[i].is_exchange]

\* C16's case: a designation with two crypto addresses followed by one
\* with one has been flattened into three records.
C16_Witness ==
    /\ Parsed
    /\ answer.body.entries = <<EntryArms, EntryWallet>>
    /\ Len(outcome.value) = 3
    /\ outcome.value[2].sdn_id = Str("7")
    /\ outcome.value[2].blockchain = "bitcoin"
    /\ outcome.value[3].sdn_id = Str("9")

\* ----------------------------------------------------- claims C17 .. C20
\* The integer amount of a response element, where it carries one.
HasAmount(op, raw) ==
    IF op.adapter = "etherscan" THEN "value" \in DOMAIN raw
    ELSE IF op.name = "get_transactions"
    THEN "amount" \in DOMAIN raw.raw_data.contract[1].parameter.value
    ELSE "value" \in DOMAIN raw
AmountOf(op, raw) ==
    IF op.adapter = "trongrid" /\ op.name = "get_transactions"
    THEN raw.raw_data.contract[1].parameter.value.amount
    ELSE raw.value

\* The exponent the design gives the element: 18 for native Etherscan and
\* 6 for native Tron transactions; for token transfers the one the token
\* declares, 18 (Etherscan) or 6 (Tron) when the element omits it.
ExponentOf(op, raw) ==
    IF op = Op("etherscan", "get_transactions") THEN 18
    ELSE IF op = Op("etherscan", "get_token_transfers")
    THEN (IF "tokenDecimal" \in DOMAIN raw THEN raw.tokenDecimal ELSE 18)
    ELSE IF op = Op("trongrid", "get_transactions") THEN 6
    ELSE IF "token_info" \in DOMAIN raw /\ "decimals" \in DOMAIN raw.token_info
    THEN raw.token_info.decimals
    ELSE 6

\* A / 10^d, exactly.
ExactQuotient(amount, d) == Normalise(amount, 0 - d)

\* C17: the value of every transaction an adapter builds from an element
\* with integer amount A and exponent d is A / 10^d exactly, for any A;
\* and so are the balance, received and spent of the Blockchair summary,
\* with d = 8.
C17_ValueIsExactQuotient ==
    \A i \in 1..Len(hist) :
        /\ hist[i].ret.kind = "return" =>
              \A k \in 1..Len(hist[i].ret.value) :
                 LET tx == hist[i].ret.value[k] IN
                 HasAmount(hist[i].op, tx.raw_data) =>
                    tx.value = ExactQuotient(AmountOf(hist[i].op, tx.raw_data),
                                             ExponentOf(hist[i].op, tx.raw_data))
        /\ (hist[i].op.adapter = "blockchair" /\ hist[i].resp = Json(200, BtcDash(hist[i].address))) =>
              LET info == BlockchairGetAddressInfo(hist[i].address, hist[i].resp).value
                  addr_data == hist[i].resp.data.data[hist[i].address].address
              IN  /\ info.balance = ExactQuotient(addr_data.balance, 8)
                  /\ info.received = ExactQuotient(addr_data.received, 8)
                  /\ info.spent = ExactQuotient(addr_data.spent, 8)

\* C18: the Etherscan operations read timeStamp as seconds since the
\* epoch, the Tron operations read block_timestamp as milliseconds and
\* divide by 1000: a Tron element with block_timestamp 1000 * t and an
\* Etherscan element with timeStamp t give the same block_timestamp.
C18_TimestampsNotMixed ==
    /\ \A i \in 1..Len(hist) :
         hist[i].ret.kind = "return" =>
            \A k \in 1..Len(hist[i].ret.value) :
               LET tx == hist[i].ret.value[k] IN
               /\ hist[i].op.adapter = "etherscan" =>
                     tx.block_timestamp = [none |-> FALSE, ms |-> 1000 * tx.raw_data.timeStamp]
               /\ (hist[i].op.adapter = "trongrid" /\ "block_timestamp" \in DOMAIN tx.raw_data) =>
                     tx.block_timestamp = [none |-> FALSE, ms |-> tx.raw_data.block_timestamp]
    /\ \A i, j \in 1..Len(hist) :
         (/\ hist[i].ret.kind = "return" /\ hist[i].op.adapter = "etherscan"
          /\ hist[j].ret.kind = "return" /\ hist[j].op.adapter = "trongrid") =>
            \A k \in 1..Len(hist[i].ret.value), m \in 1..Len(hist[j].ret.value) :
               LET e == hist[i].ret.value[k]
                   t == hist[j].ret.value[m]
               IN  ("block_timestamp" \in DOMAIN t.raw_data
                      /\ t.raw_data.block_timestamp = 1000 * e.raw_data.timeStamp)
                   => t.block_timestamp = e.block_timestamp

\* C18's case: a batch of an ethereum and a tron address has returned, the
\* first with a transaction of timeStamp 17, the second with one of
\* block_timestamp 17000, and the two carry the same point in time.
C18_Witness ==
    /\ BatchDone
    /\ Len(hist) = 2
    /\ hist[1].op = Op("etherscan", "get_transactions")
    /\ hist[2].op = Op("trongrid", "get_transactions")
    /\ hist[1].ret.kind = "return" /\ Len(hist[1].ret.value) > 0
    /\ hist[2].ret.kind = "return" /\ Len(hist[2].ret.value) > 0
    /\ hist[1].ret.value[1].raw_data.timeStamp = 17
    /\ hist[2].ret.value[1].raw_data.block_timestamp = 17000
    /\ hist[1].ret.value[1].block_timestamp = hist[2].ret.value[1].block_timestamp

\* C19: a transaction built from an element without its timestamp field
\* has no block_timestamp (None), never a substituted point in time.
C19_MissingTimestampStaysAbsent ==
    \A i \in 1..Len(hist) :
        hist[i].ret.kind = "return" =>
           \A k \in 1..Len(hist[i].ret.value) :
              LET tx == hist[i].ret.value[k]
                  field == IF hist[i].op.adapter = "etherscan" THEN "timeStamp"
                           ELSE "block_timestamp"
              IN  field \notin DOMAIN tx.raw_data => tx.block_timestamp = NoTime

\* The requests sent for spec i of the running entry point.
RequestsOf(i) == {k \in 1..Len(sent) : sent[k].i = i}

\* C20: there is no retry: a monitor_address call on a live monitor has
\* sent exactly one request when it ends, whether the request failed, was
\* answered with a non-success status or succeeded, and never more than
\* one while it runs; a monitor_all call over N specs sends at most N
\* requests, one per spec.
C20_NoRetry ==
    entry \in {"api_address", "api_batch", "cli"} =>
        /\ Len(sent) <= Len(input)
        /\ \A i \in 1..Len(input) : Cardinality(RequestsOf(i)) <= 1
        /\ \A i \in 1..Len(hist) :
             hist[i].client = "open" => Cardinality(RequestsOf(i)) = 1
        /\ (BatchDone /\ outcome.kind = "return") =>
             Len(sent) = Cardinality({i \in 1..Len(hist) : hist[i].client = "open"})

\* C20's case: a batch of two specs has returned, the first spec's request
\* having failed and the second's having been answered with a non-success
\* status, and two requests have been sent.
C20_Witness ==
    /\ BatchDone
    /\ outcome.kind = "return"
    /\ Len(hist) = 2
    /\ hist[1].resp.kind = "neterr"
    /\ NonSuccess(hist[2].resp)
    /\ Len(sent) = 2
    /\ sent[1].i = 1
    /\ sent[2].i = 2

\* ----------------------------------------------------- claims C21 .. C24
\* Two address strings are equal ignoring case.
SameAddress(a, b) ==
    /\ Len(AddressChars[a]) = Len(AddressChars[b])
    /\ \A i \in 1..Len(AddressChars[a]) : SameLetter(AddressChars[a][i], AddressChars[b][i])

\* C21: the route monitor_address and cmd_monitor report a transaction
\* outgoing exactly when its from_address equals the queried address
\* ignoring case, and incoming exactly when its to_address equals the
\* queried address ignoring case.
C21_DirectionFromBothAddresses ==
    (entry \in {"api_address", "cli"} /\ outcome.kind = "return") =>
        \A i \in 1..Len(outcome.value) :
            LET item == outcome.value[i] IN
            /\ item.direction \in {"outgoing", "OUT"}
                  <=> SameAddress(item.from_address, input[1].address)
            /\ item.direction \in {"incoming", "IN"}
                  <=> SameAddress(item.to_address, input[1].address)

\* C22: settings are cached: whatever get_settings calls have been made
\* (those of the fetcher's, the adapters' and the monitor's constructors),
\* every call has returned the same Settings instance, and Settings() has
\* run at most once in the process.
C22_SettingsCached ==
    /\ settings.created <= 1
    /\ \A c \in Components : settingsOf[c] # 0 => settingsOf[c] = settings.cache
    /\ \A c, d \in Components :
         (settingsOf[c] # 0 /\ settingsOf[d] # 0) => settingsOf[c] = settingsOf[d]

\* C22's case: startup has created the fetcher, the three adapters and the
\* monitor, five get_settings calls, and all hold the one instance.
C22_Witness ==
    /\ lifecycle = "api"
    /\ settings.created = 1
    /\ \A c \in Components : settingsOf[c] = 1

\* C23: every record get_iran_crypto_addresses returns carries a
\* blockchain among bitcoin, ethereum, usdt_trc20 and tron, never
\* "unknown", so the first loop of monitor_all given the returned list
\* rejects no spec.
C23_IngestionFeedsMonitor ==
    (FetchDone /\ outcome.kind = "return") =>
        /\ \A i \in 1..Len(outcome.value) :
             outcome.value[i].blockchain \in {"bitcoin", "ethereum", "usdt_trc20", "tron"}
        /\ TagsAccepted(outcome.value)
        /\ \A i \in 1..Len(parsed.value) :
             \A j \in 1..Len(parsed.value[i].crypto_addresses) :
                parsed.value[i].crypto_addresses[j].blockchain # "unknown"

\* C23's case: a document whose id lists hold a USDT, an ETH, an XBT and
\* an LTC address, a passport and an identifier without type has been
\* fetched, and the three records returned are tags of the monitor.
C23_Witness ==
    /\ FetchDone
    /\ outcome.kind = "return"
    /\ answer.body.entries = <<EntryTra, EntryArms>>
    /\ Len(outcome.value) = 3
    /\ outcome.value[1].blockchain = "usdt_trc20"
    /\ outcome.value[2].blockchain = "ethereum"
    /\ outcome.value[3].blockchain = "bitcoin"
    /\ TagsAccepted(outcome.value)

\* C24: every transaction monitor_address returns is tagged with the
\* blockchain it was called with (ethereum, tron, usdt_erc20, usdt_trc20),
\* whatever the answer of the upstream holds.
C24_TaggedAsRequested ==
    \A i \in 1..Len(hist) :
        (hist[i].ret.kind = "return"
           /\ hist[i].blockchain \in {"ethereum", "tron", "usdt_erc20", "usdt_trc20"}) =>
            \A k \in 1..Len(hist[i].ret.value) :
                hist[i].ret.value[k].blockchain = hist[i].blockchain

=============================================================================
